---- MODULE Spec2Model ----
(***************************************************************************)
(* Model of the outage dashboard pipeline.                                 *)
(*                                                                         *)
(* The dashboard validator of analyse_insights.analyze_insights            *)
(* (src/analyse_insights.py, lines 199-298): the text returned by the text *)
(* model is stripped of code fences, parsed as JSON, repaired field by     *)
(* field and persisted as the provider's report (Spec).  The extraction of *)
(* the intermediate record from the two pages (src/webscrapper.py,         *)
(* ExtractSpec).  One provider's pipeline from its task to its outcome     *)
(* (PipelineSpec) and the provider tasks of main() behind the gate         *)
(* (src/main.py, MainSpec).                                                *)
(*                                                                         *)
(* JSON values are records <<tag, payload>>:                     *)
(*   null   v = 0                  bool   v \in BOOLEAN                    *)
(*   int    v = the integer        bigint an integer literal beyond the    *)
(*   float  v = thousandths               range of a double (v = sign)     *)
(*   inf    v = sign (1 or -1)     nan    v = 0                            *)
(*   str    v = the string         arr    v = a sequence of values         *)
(*   obj    v = a function from keys (strings) to values                   *)
(* A Python exception leaving the validator is <<"raise", kind>>.*)
(***************************************************************************)
EXTENDS Integers, Sequences, FiniteSets, TLC

VARIABLES
  pc,                 \* position of analyze_insights: RawText, ParseFailure,
                      \* ValidatedPayload or Raised
  content,            \* result["choices"][0]["message"]["content"]: the
                      \* model's text, a sequence of tokens
  candidate,          \* the JSON value the body token of the text stands for
  dashboard_content,  \* the local text: stripped, then re-serialized
  dashboard_json,     \* the parsed value after the field repairs
  error,              \* the exception that left analyze_insights, if any
  report,             \* reports/<provider>.json: what write_text stored
  calls,              \* the remote calls of the pipeline: how each one ended
  html,               \* the parsed main page
  map_html,           \* the parsed map page
  data,               \* the intermediate record scrape_outage_page returns
  scraped,            \* scraped-data/<provider>.json
  analysis_text,      \* the chart summary or its placeholder
  permit,             \* the provider's task is inside `async with SEMAPHORE`
  outcome,            \* what process_service printed for the provider
  SEMAPHORE,          \* the permits left in the gate of main.py
  tasks,              \* the number of sibling provider tasks at each position
  services            \* the number of sibling providers

vars ==
  <<pc, content, candidate, dashboard_content, dashboard_json, error, report>>

----------------------------------------------------------------------------
(* JSON values *)

Null == <<"null", 0>>
Bool(b) == <<"bool", b>>
Int_(n) == <<"int", n>>
BigInt == <<"bigint", 1>>
Float(m) == <<"float", m>>
Inf(s) == <<"inf", s>>
NaN == <<"nan", 0>>
Str(s) == <<"str", s>>
Arr(a) == <<"arr", a>>
Obj(f) == <<"obj", f>>
Raise(kind) == <<"raise", kind>>

IsRaise(x) == x[1] = "raise"

\* the function f with key k set to x (added when k is not a key of f)
Put(f, k, x) == [j \in (DOMAIN f) \cup {k} |-> IF j = k THEN x ELSE f[j]]

----------------------------------------------------------------------------
(* Python primitives the validator applies to untrusted values *)

\* k is a substring of s, for the key names the validator tests: among them
\* only "status" is a proper substring of another key ("status_color"); the
\* sample strings of the model hold a key name only as their whole text.
IsSubstring(k, s) == k = s \/ (k = "status" /\ s = "status_color")

\* Every statement of the validator starts by reading the value it works
\* on.  Where an earlier statement raised, that value is the exception in
\* flight, and the three reads below hand it on: no later statement runs.

\* `k in x`: TRUE, FALSE or a TypeError for a value that is no container
In(k, x) ==
  CASE x[1] = "obj" -> Bool(k \in DOMAIN x[2])
    [] x[1] = "arr" -> Bool(\E i \in 1..Len(x[2]) : x[2][i] = Str(k))
    [] x[1] = "str" -> Bool(IsSubstring(k, x[2]))
    [] x[1] = "raise" -> x
    [] OTHER -> Raise("TypeError")

\* `x[k]` for a string key k, evaluated only after `k in x` was true
GetItem(x, k) ==
  CASE x[1] = "obj" -> x[2][k]
    [] x[1] = "raise" -> x
    [] OTHER -> Raise("TypeError")

\* `x.get(k, 0)`: only a dict has the method
GetOrZero(x, k) ==
  CASE x[1] = "obj" -> IF k \in DOMAIN x[2] THEN x[2][k] ELSE Int_(0)
    [] x[1] = "raise" -> x
    [] OTHER -> Raise("AttributeError")

\* a store that rebuilds the object from the stored key alone
SetItemAlone(o, k, c) ==
  IF IsRaise(c) THEN c ELSE Obj([j \in {k} |-> c])

\* `o[k] = c`, unless computing c raised
SetItem(o, k, c) == IF IsRaise(c) THEN c ELSE Obj(Put(o[2], k, c))

\* float(s) of a string: the numeric literals among the sample strings
StrToFloat(s) ==
  CASE s = "50" -> Float(50000)
    [] s = "7.25" -> Float(7250)
    [] s = "4.126" -> Float(4126)
    [] s = "33.5" -> Float(33500)
    [] s = "-3" -> Float(-3000)
    [] s = "inf" -> Inf(1)
    [] s = "nan" -> NaN
    [] OTHER -> Raise("ValueError")

\* int(s) of a string: only integer literals parse
StrToInt(s) ==
  CASE s = "50" -> Int_(50)
    [] s = "-3" -> Int_(-3)
    [] OTHER -> Raise("ValueError")

\* float(x)
PyFloat(x) ==
  CASE x[1] = "bool" -> Float(IF x[2] THEN 1000 ELSE 0)
    [] x[1] = "int" -> Float(1000 * x[2])
    [] x[1] = "bigint" -> Raise("OverflowError")
    [] x[1] \in {"float", "inf", "nan"} -> x
    [] x[1] = "str" -> StrToFloat(x[2])
    [] OTHER -> Raise("TypeError")

\* the integer nearest num/den (den > 0), a tie going to the even one
RoundHalfEven(num, den) ==
  LET q == num \div den
      r == num - q * den
  IN  IF 2 * r > den THEN q + 1
      ELSE IF 2 * r < den THEN q
      ELSE IF q % 2 = 0 THEN q ELSE q + 1

\* round(f, ndigits) of a float, unit = 10^(3 - ndigits) thousandths;
\* an infinity or a NaN is returned as it is
PyRoundTo(f, unit) ==
  IF f[1] = "float" THEN Float(unit * RoundHalfEven(f[2], unit)) ELSE f

\* int(round(f)) of a float
PyRoundInt(f) ==
  CASE f[1] = "float" -> Int_(RoundHalfEven(f[2], 1000))
    [] f[1] = "inf" -> Raise("OverflowError")
    [] f[1] = "nan" -> Raise("ValueError")

\* int(x)
PyInt(x) ==
  CASE x[1] = "bool" -> Int_(IF x[2] THEN 1 ELSE 0)
    [] x[1] \in {"int", "bigint"} -> x
    [] x[1] = "float" ->
         Int_(IF x[2] >= 0 THEN x[2] \div 1000 ELSE -((-x[2]) \div 1000))
    [] x[1] = "inf" -> Raise("OverflowError")
    [] x[1] = "nan" -> Raise("ValueError")
    [] x[1] = "str" -> StrToInt(x[2])
    [] OTHER -> Raise("TypeError")

\* max(0.0, min(hi, f)) of a float f: min keeps hi unless f < hi, max keeps
\* 0.0 unless the other is greater; a NaN compares false both ways
ClampFloat(f, hi) ==
  LET m == CASE f[1] = "float" -> IF f[2] < hi THEN f ELSE Float(hi)
             [] f[1] = "inf" -> IF f[2] < 0 THEN f ELSE Float(hi)
             [] f[1] = "nan" -> Float(hi)
  IN  CASE m[1] = "float" -> IF m[2] > 0 THEN m ELSE Float(0)
        [] m[1] = "inf" -> Float(0)

\* the except clauses of the repairs catch ValueError and TypeError only
Caught(r) == IsRaise(r) /\ r[2] \in {"ValueError", "TypeError"}

----------------------------------------------------------------------------
(* The contract table: ranges, array windows and enum sets of the repairs *)

PainMax == 10
StarMax == 5
PercentMax == 100
SentimentTotal == 100
KeyMetricsMax == 5
ActiveOutagesMax == 10
GeographicHotspotsMax == 5
RecentActivityMax == 8
CriticalInsightsMax == 4
RecommendationsMax == 3
SamplesMax == 4

StatusValues == {"good", "moderate", "major issues"}
StatusColorValues == {"green", "yellow", "red"}
SentimentKeys == <<"negative", "neutral", "positive">>

Min(a, b) == IF a < b THEN a ELSE b
Max(a, b) == IF a > b THEN a ELSE b

\* max(0.0, min(10.0, round(float(x), 1))), 0.0 when float(x) is caught
ClampPain(x) ==
  LET f == PyFloat(x)
  IN  IF Caught(f) THEN Float(0)
      ELSE IF IsRaise(f) THEN f
      ELSE ClampFloat(PyRoundTo(f, 100), 1000 * PainMax)

\* max(0.0, min(5.0, round(float(x), 2))), 0.0 when float(x) is caught
ClampStar(x) ==
  LET f == PyFloat(x)
  IN  IF Caught(f) THEN Float(0)
      ELSE IF IsRaise(f) THEN f
      ELSE ClampFloat(PyRoundTo(f, 10), 1000 * StarMax)

\* max(0, min(100, int(round(float(x))))), 0 when the conversion is caught
ClampPercent(x) ==
  LET f == PyFloat(x)
      r == IF IsRaise(f) THEN f ELSE PyRoundInt(f)
  IN  IF Caught(r) THEN Int_(0)
      ELSE IF IsRaise(r) THEN r
      ELSE Int_(Max(0, Min(PercentMax, r[2])))

\* max(0, int(x)), 0 when int(x) is caught
ClampCount(x) ==
  LET i == PyInt(x)
  IN  IF Caught(i) THEN Int_(0)
      ELSE IF IsRaise(i) \/ i[1] = "bigint" THEN i
      ELSE Int_(Max(0, i[2]))

\* the clamp of each kind of numeric field
Clamp(kind, x) ==
  CASE kind = "pain" -> ClampPain(x)
    [] kind = "star" -> ClampStar(x)
    [] kind = "percent" -> ClampPercent(x)
    [] kind = "count" -> ClampCount(x)

\* `if k in o and o[k] is not None: try: o[k] = clamp(o[k]) except ...`
RepairField(o, k, kind) ==
  LET h == In(k, o)
  IN  IF IsRaise(h) THEN h
      ELSE IF ~h[2] THEN o
      ELSE LET x == GetItem(o, k)
           IN  IF IsRaise(x) THEN x
               ELSE IF x = Null THEN o
               ELSE SetItem(o, k, Clamp(kind, x))

RepairPainIndex(dj) == RepairField(dj, "pain_index", "pain")

\* `"star_rating" in header and header["star_rating"] is not None: ...`
RepairStarRatingOf(header) == RepairField(header, "star_rating", "star")

\* a plausible slip: int(a * scale), the fraction dropped instead of rounded
ScaleRoundDown(a, total) == (100 * a) \div total

\* int(round(a * scale)) with scale = 100 / total in double arithmetic, for
\* 0 <= a <= 100 and 0 < total <= 300.  The product is the exact quotient
\* rounded half to even, except for the ties below, where 100 / total is
\* rounded up to a double and the product lands just above the tie.
TieAboveInDouble ==
  {<<15, 24>>, <<30, 48>>, <<11, 88>>, <<55, 88>>, <<60, 96>>, <<85, 136>>,
   <<95, 152>>, <<22, 176>>}

ScaleRound(a, total) ==
  IF <<a, total>> \in TieAboveInDouble
  THEN (SentimentTotal * a) \div total + 1
  ELSE RoundHalfEven(SentimentTotal * a, total)

\* the three assignments of the renormalization
Renormalize(sent, total) ==
  LET neg == ScaleRound(GetOrZero(sent, "negative")[2], total)
      neu == ScaleRound(GetOrZero(sent, "neutral")[2], total)
      s1 == Put(sent[2], "negative", Int_(neg))
      s2 == Put(s1, "neutral", Int_(neu))
  IN  Obj(Put(s2, "positive", Int_(SentimentTotal - neg - neu)))

\* a plausible slip: the total taken over negative and neutral only
NormalizeSentimentTwoTerms(sent) ==
  LET g == [i \in 1..2 |-> GetOrZero(sent, SentimentKeys[i])]
  IN  IF \E i \in 1..2 : IsRaise(g[i]) THEN g[1]
      ELSE IF \E i \in 1..2 : g[i] = Null THEN Raise("TypeError")
      ELSE LET total == g[1][2] + g[2][2]
           IN  IF total # SentimentTotal /\ total > 0
               THEN Renormalize(sent, total) ELSE sent

\* total = sent.get(...) + sent.get(...) + sent.get(...), then the rescaling
NormalizeSentiment(sent) ==
  LET g == [i \in 1..3 |-> GetOrZero(sent, SentimentKeys[i])]
  IN  IF \E i \in 1..3 : IsRaise(g[i]) THEN g[1]
      ELSE IF \E i \in 1..3 : g[i] = Null THEN Raise("TypeError")
      ELSE LET total == g[1][2] + g[2][2] + g[3][2]
           IN  IF total # SentimentTotal /\ total > 0
               THEN Renormalize(sent, total) ELSE sent

ClampNegative(sent) == RepairField(sent, "negative", "percent")
ClampNeutral(sent) == RepairField(sent, "neutral", "percent")
ClampPositive(sent) == RepairField(sent, "positive", "percent")

\* the loop over the three keys: each present non-null value clamped
ClampSentiment(sent) == ClampPositive(ClampNeutral(ClampNegative(sent)))

RepairSentimentOf(sent) == NormalizeSentiment(ClampSentiment(sent))

\* `if "percent" in prob and prob["percent"] is not None: ...`
RepairPercentOf(prob) == RepairField(prob, "percent", "percent")

\* `for prob in dashboard_json["problem_distribution"]`: a list yields its
\* entries, a dict its keys, a string its characters (none of which holds
\* "percent"); nothing else can be iterated.  The first exception ends it.
RepairProblemsOf(probs) ==
  CASE probs[1] = "arr" ->
         LET r == [i \in 1..Len(probs[2]) |-> RepairPercentOf(probs[2][i])]
             bad == {i \in 1..Len(probs[2]) : IsRaise(r[i])}
         IN  IF bad = {} THEN Arr(r)
             ELSE r[CHOOSE i \in bad : \A j \in bad : i <= j]
    [] probs[1] = "obj" ->
         IF \E k \in DOMAIN probs[2] : IsSubstring("percent", k)
         THEN Raise("TypeError") ELSE probs
    [] probs[1] \in {"str", "raise"} -> probs
    [] OTHER -> Raise("TypeError")

\* a plausible slip: x[-n:], the last n items kept
TruncateValueTail(x, n) ==
  CASE x[1] \in {"arr", "str"} ->
         IF Len(x[2]) > n
         THEN <<x[1], SubSeq(x[2], Len(x[2]) - n + 1, Len(x[2]))>> ELSE x
    [] x[1] = "obj" ->
         IF Cardinality(DOMAIN x[2]) > n THEN Raise("TypeError") ELSE x
    [] x[1] = "raise" -> x
    [] OTHER -> Raise("TypeError")

\* len(x) > n and then x[:n]: a list or a string is cut to its first n
\* items, a dict has a length but cannot be sliced
TruncateValue(x, n) ==
  CASE x[1] \in {"arr", "str"} ->
         IF Len(x[2]) > n THEN <<x[1], SubSeq(x[2], 1, n)>> ELSE x
    [] x[1] = "obj" ->
         IF Cardinality(DOMAIN x[2]) > n THEN Raise("TypeError") ELSE x
    [] x[1] = "raise" -> x
    [] OTHER -> Raise("TypeError")

\* `if k in o and len(o[k]) > n: o[k] = o[k][:n]`
Truncate(o, k, n) ==
  LET h == In(k, o)
  IN  IF IsRaise(h) THEN h
      ELSE IF ~h[2] THEN o
      ELSE SetItem(o, k, TruncateValue(GetItem(o, k), n))

TruncateSamplesOf(sent) == Truncate(sent, "samples", SamplesMax)

\* a plausible slip: a null skipped, as the numeric repairs skip it
RepairEnumSkipsNull(header, k, allowed, default) ==
  LET h == In(k, header)
  IN  IF IsRaise(h) THEN h
      ELSE IF ~h[2] THEN header
      ELSE LET x == GetItem(header, k)
           IN  IF IsRaise(x) THEN x
               ELSE IF x = Null \/ (x[1] = "str" /\ x[2] \in allowed)
               THEN header
               ELSE Obj(Put(header[2], k, Str(default)))

\* `if k in header: if header[k] not in allowed: header[k] = default`
RepairEnum(header, k, allowed, default) ==
  LET h == In(k, header)
  IN  IF IsRaise(h) THEN h
      ELSE IF ~h[2] THEN header
      ELSE LET x == GetItem(header, k)
           IN  IF IsRaise(x) THEN x
               ELSE IF x[1] = "str" /\ x[2] \in allowed THEN header
               ELSE Obj(Put(header[2], k, Str(default)))

RepairStatusOf(header) == RepairEnum(header, "status", StatusValues, "moderate")
RepairStatusColorOf(header) ==
  RepairEnum(header, "status_color", StatusColorValues, "yellow")
RepairEnumsOf(header) == RepairStatusColorOf(RepairStatusOf(header))

RepairTotalReportsOf(header) ==
  RepairField(header, "total_reports_24h", "count")

\* the repair of each block of the code that works on a nested value
RepairInside(block, o) ==
  CASE block = "star_rating" -> RepairStarRatingOf(o)
    [] block = "sentiment" -> RepairSentimentOf(o)
    [] block = "problem_distribution" -> RepairProblemsOf(o)
    [] block = "samples" -> TruncateSamplesOf(o)
    [] block = "enums" -> RepairEnumsOf(o)
    [] block = "total_reports_24h" -> RepairTotalReportsOf(o)

\* `if outer in dj and <the block's repair of dj[outer]>`: the repair
\* mutates the nested value in place
RepairNested(dj, outer, block) ==
  LET h == In(outer, dj)
  IN  IF IsRaise(h) THEN h
      ELSE IF ~h[2] THEN dj
      ELSE SetItem(dj, outer, RepairInside(block, GetItem(dj, outer)))

RepairStarRating(dj) == RepairNested(dj, "header", "star_rating")
RepairSentiment(dj) == RepairNested(dj, "sentiment", "sentiment")
RepairProblemDistribution(dj) ==
  RepairNested(dj, "problem_distribution", "problem_distribution")

TruncateKeyMetrics(dj) == Truncate(dj, "key_metrics", KeyMetricsMax)
TruncateActiveOutages(dj) == Truncate(dj, "active_outages", ActiveOutagesMax)
TruncateGeographicHotspots(dj) ==
  Truncate(dj, "geographic_hotspots", GeographicHotspotsMax)
TruncateRecentActivity(dj) == Truncate(dj, "recent_activity", RecentActivityMax)
TruncateCriticalInsights(dj) ==
  Truncate(dj, "critical_insights", CriticalInsightsMax)
TruncateRecommendations(dj) ==
  Truncate(dj, "recommendations", RecommendationsMax)
TruncateSamples(dj) == RepairNested(dj, "sentiment", "samples")

\* the seven length checks in the order of the code
TruncateArrays(dj) ==
  TruncateSamples(TruncateRecommendations(TruncateCriticalInsights(
    TruncateRecentActivity(TruncateGeographicHotspots(
      TruncateActiveOutages(TruncateKeyMetrics(dj)))))))

RepairEnums(dj) == RepairNested(dj, "header", "enums")
RepairTotalReports(dj) == RepairNested(dj, "header", "total_reports_24h")

\* the field repairs in the order of the code; the result is the repaired
\* value, or the exception that left the validator
FieldRepair(dj) ==
  RepairTotalReports(RepairEnums(TruncateArrays(RepairProblemDistribution(
    RepairSentiment(RepairStarRating(RepairPainIndex(dj)))))))

----------------------------------------------------------------------------
(* The model's text.  A text is a sequence of tokens: "F" a code fence     *)
(* (three backquotes), "J" the word json, "N" a newline, "S" a blank, "B"  *)
(* the JSON document of the candidate value, "X" any other text.           *)

IsSpace(tok) == tok \in {"S", "N"}

\* re.sub(r'^```(?:json)?\n?', '', text): only at the very start of the text
StripOpeningFence(text) ==
  IF text # <<>> /\ Head(text) = "F"
  THEN LET a == Tail(text)
           b == IF a # <<>> /\ Head(a) = "J" THEN Tail(a) ELSE a
       IN  IF b # <<>> /\ Head(b) = "N" THEN Tail(b) ELSE b
  ELSE text

\* re.sub(r'\n?```$', '', text): $ matches at the end of the text and before
\* a newline that ends it; the newline before the fence goes with it
StripClosingFence(text) ==
  LET n == Len(text)
      at == IF n >= 1 /\ text[n] = "F" THEN n
            ELSE IF n >= 2 /\ text[n] = "N" /\ text[n - 1] = "F" THEN n - 1
            ELSE 0
      from == IF at >= 2 /\ text[at - 1] = "N" THEN at - 1 ELSE at
  IN  IF at = 0 THEN text
      ELSE SubSeq(text, 1, from - 1) \o SubSeq(text, at + 1, n)

\* text.strip()
RECURSIVE LStrip(_)
LStrip(text) ==
  IF text # <<>> /\ IsSpace(Head(text)) THEN LStrip(Tail(text)) ELSE text

RECURSIVE RStrip(_)
RStrip(text) ==
  IF text # <<>> /\ IsSpace(text[Len(text)])
  THEN RStrip(SubSeq(text, 1, Len(text) - 1)) ELSE text

PyStrip(text) == RStrip(LStrip(text))

\* lines 202-204
StripFences(text) == PyStrip(StripClosingFence(StripOpeningFence(text)))

\* json.loads(text) succeeds: the text is one JSON document and nothing else
JsonLoads(text) == text = <<"B">>

NoValue == <<"none", 0>>
NoFile == [written |-> FALSE, text |-> <<>>, body |-> NoValue]

----------------------------------------------------------------------------
(* The inputs *)

MaxSentiment == 15   \* sentiment integers -1 .. MaxSentiment, and samples
MaxEighths == 44     \* star ratings k/8 for k up to MaxEighths (5.5)
MaxQuarters == 44    \* pain indexes k/4 for k up to MaxQuarters (11.0)
MaxProblems == 2     \* entries of a problem_distribution
MaxExtra == 2        \* items of an array beyond its window
MaxPad == 1          \* blanks or newlines around a text

Absent == <<"absent", 0>>

\* the object of the keys of f whose value is not Absent
MkObj(f) == Obj([k \in {j \in DOMAIN f : f[j] # Absent} |-> f[k]])

\* values of no numeric use, and numbers no conversion accepts
OddValues ==
  {Null, Bool(TRUE), Str("50"), Str("abc"), Str("inf"), Str("nan"), NaN,
   Inf(1), Inf(-1), BigInt, Arr(<<>>), Obj(<<>>)}

SentimentValues ==
  {Int_(n) : n \in (-1..MaxSentiment) \cup {20, 42, 50, 58, 100, 150}}
    \cup {Null, Absent, Str("50"), Str("abc"), Float(33500), Inf(1), NaN}

SampleLists == {Absent, Arr([i \in 1..3 |-> Str("quote")]),
                Arr([i \in 1..(SamplesMax + 1) |-> Int_(i)])}

SentimentCandidates ==
  {MkObj([sentiment |->
           MkObj([negative |-> a, neutral |-> b, positive |-> c,
                  samples |-> Absent])]) :
     a \in SentimentValues, b \in SentimentValues, c \in SentimentValues}
  \cup
  {MkObj([sentiment |->
           MkObj([negative |-> a, neutral |-> Int_(50), positive |-> c,
                  samples |-> l]),
          trend_analysis |-> Str("rising")]) :
     a \in {Absent, Int_(50), Int_(9)}, c \in {Absent, Int_(0), Int_(20)},
     l \in SampleLists}

StarValues ==
  {Float(125 * k) : k \in (-4)..MaxEighths}
    \cup {Float(-1200), Float(4126), Int_(3), Int_(7), Int_(-2), Str("4.126"),
          Str("7.25")}
    \cup OddValues

PainValues ==
  {Float(250 * k) : k \in (-4)..MaxQuarters}
    \cup {Float(14370), Float(7125), Int_(5), Int_(12), Int_(-3), Str("7.25"),
          Str("33.5")}
    \cup OddValues

CountValues ==
  {Int_(n) : n \in {-3, 0, 12, 4210}}
    \cup {Float(-3700), Float(12700), Str("-3"), Str("7.25")} \cup OddValues

StatusInputs ==
  {Absent, Null, Int_(1), Str("good"), Str("moderate"), Str("major issues"),
   Str("outage"), Str("Good"), Arr(<<Str("good")>>)}

StatusColorInputs ==
  {Absent, Null, Str("green"), Str("yellow"), Str("red"), Str("orange")}

PainCandidates ==
  {MkObj([pain_index |-> p, trend_analysis |-> t]) :
     p \in PainValues \cup {Absent}, t \in {Absent, Str("rising")}}

HeaderCandidates ==
  {MkObj([header |-> MkObj([star_rating |-> s, provider |-> Str("att")])]) :
     s \in StarValues \cup {Absent}}
  \cup
  {MkObj([header |->
           MkObj([star_rating |-> s, status |-> st, status_color |-> sc,
                  total_reports_24h |-> n])]) :
     s \in {Absent, Float(-1200), Float(4125)}, st \in StatusInputs,
     sc \in StatusColorInputs, n \in CountValues \cup {Absent}}

\* the bounded array fields of the top level, with their windows
ArrayKeys ==
  {"key_metrics", "active_outages", "geographic_hotspots", "recent_activity",
   "critical_insights", "recommendations"}

Window(k) ==
  CASE k = "key_metrics" -> KeyMetricsMax
    [] k = "active_outages" -> ActiveOutagesMax
    [] k = "geographic_hotspots" -> GeographicHotspotsMax
    [] k = "recent_activity" -> RecentActivityMax
    [] k = "critical_insights" -> CriticalInsightsMax
    [] k = "recommendations" -> RecommendationsMax
    [] k = "samples" -> SamplesMax

\* lists of n distinguishable items, in rising and in falling order
Rising(n) == Arr([i \in 1..n |-> Int_(i)])
Falling(n) == Arr([i \in 1..n |-> Int_(n + 1 - i)])

\* what a model may put where a list is expected
NonLists ==
  {Null, Int_(5), Bool(TRUE), Str("x"), Str("abcdefghijkl"),
   Obj([a |-> Int_(1)]),
   Obj([a |-> Int_(1), b |-> Int_(2), c |-> Int_(3), d |-> Int_(4)])}

ArrayInputs(k) ==
  {Rising(n) : n \in 0..(Window(k) + MaxExtra)}
    \cup {Falling(n) : n \in 2..(Window(k) + MaxExtra)}
    \cup NonLists

ArrayCandidates ==
  \* one array field at a time, of every length and of other types
  {Obj([j \in {k} |-> x]) : <<k, x>> \in
     UNION {{<<k, x>> : x \in ArrayInputs(k)} : k \in ArrayKeys}}
  \cup
  {MkObj([sentiment |-> Obj([samples |-> x])]) : x \in ArrayInputs("samples")}
  \cup
  \* all of them together, absent, full or one over
  {MkObj([key_metrics |-> a, active_outages |-> b, geographic_hotspots |-> c,
          recent_activity |-> d, critical_insights |-> e,
          recommendations |-> f]) :
     a \in {Absent, Rising(KeyMetricsMax), Falling(KeyMetricsMax + 1)},
     b \in {Absent, Rising(ActiveOutagesMax), Falling(ActiveOutagesMax + 1)},
     c \in {Absent, Falling(GeographicHotspotsMax + 1)},
     d \in {Absent, Rising(RecentActivityMax + 1)},
     e \in {Absent, Rising(CriticalInsightsMax), Falling(CriticalInsightsMax + 1)},
     f \in {Absent, Rising(RecommendationsMax - 1),
            Rising(RecommendationsMax + 1)}}

PercentInputs ==
  {Absent, Null, Int_(-5), Int_(0), Int_(35), Int_(100), Int_(150),
   Float(32500), Float(33500), Str("50"), Str("abc"), Inf(1), NaN, Arr(<<>>)}

ProblemEntries ==
  {MkObj([label |-> Str("Internet"), percent |-> x]) : x \in PercentInputs}
    \cup {Null, Int_(5), Str("x"), Str("percent"), Arr(<<Str("percent")>>)}

ProblemLists ==
  UNION {[1..n -> ProblemEntries] : n \in 0..MaxProblems}

ProblemCandidates ==
  {Obj([problem_distribution |-> Arr(l)]) : l \in ProblemLists}
  \cup
  {Obj([problem_distribution |-> x]) :
     x \in {Null, Int_(5), Str("x"), Obj([percent |-> Int_(1)]),
            Obj([a |-> Int_(1)])}}

\* an object, or the header or the sentiment of one, of another JSON type
MistypedCandidates ==
  {Arr(<<>>), Arr(<<Str("header")>>), Int_(5), Null, Bool(FALSE), Str("x"),
   Str("pain_index"), Obj(<<>>)}
  \cup
  {Obj([header |-> x]) :
     x \in {Null, Int_(5), Arr(<<>>), Arr(<<Str("status")>>), Str("x"),
            Str("star_rating"), Str("status_color"), Obj(<<>>)}}
  \cup
  {Obj([sentiment |-> x]) :
     x \in {Null, Int_(5), Arr(<<>>), Arr(<<Str("negative")>>), Str("x"),
            Str("samples"), Obj(<<>>)}}

\* whole dashboards: every section present or absent, sound or broken
DashboardCandidates ==
  {MkObj([pain_index |-> p, header |-> h, sentiment |-> s,
          problem_distribution |-> d, recommendations |-> r,
          trend_analysis |-> Str("rising")]) :
     p \in {Absent, Float(14370), Float(6500), BigInt},
     h \in {Absent, Null,
            Obj([provider |-> Str("att"), status |-> Str("outage"),
                 status_color |-> Str("red"), star_rating |-> Float(-1200),
                 total_reports_24h |-> Int_(4210)]),
            Obj([provider |-> Str("att"), status |-> Str("good"),
                 status_color |-> Str("green"), star_rating |-> Float(3250),
                 total_reports_24h |-> Str("50")])},
     s \in {Absent,
            Obj([negative |-> Int_(50), neutral |-> Int_(50),
                 positive |-> Int_(20)]),
            Obj([negative |-> Int_(60), neutral |-> Int_(30),
                 positive |-> Int_(10), samples |-> Rising(SamplesMax + 1)]),
            Obj([negative |-> Null, neutral |-> Int_(30),
                 positive |-> Int_(10)]),
            Obj([negative |-> Int_(70)])},
     d \in {Absent,
            Arr(<<Obj([label |-> Str("Internet"), percent |-> Int_(150)]),
                  Obj([label |-> Str("Phone"), percent |-> Null])>>),
            Arr(<<Int_(5)>>)},
     r \in {Absent, Rising(RecommendationsMax + 1), Null}}

\* dashboards whose header, sentiment and problem entries carry keys outside
\* the contract table next to fields that satisfy or violate their rule
AnnotatedCandidates ==
  {Obj([pain_index |-> p,
        header |-> Obj([provider |-> Str("att"), status |-> Str("good"),
                        status_color |-> c, star_rating |-> st,
                        total_reports_24h |-> Int_(12)]),
        sentiment |-> Obj([negative |-> Int_(60), neutral |-> Int_(30),
                           positive |-> Int_(10), summary |-> Str("mixed"),
                           samples |-> l]),
        problem_distribution |->
          Arr(<<Obj([label |-> Str("Internet"), color |-> Str("#f00"),
                     percent |-> x])>>),
        trend_analysis |-> Str("rising")]) :
     p \in {Float(6500), Int_(5), Float(14370)},
     c \in {Str("green"), Str("blue")},
     st \in {Float(3250), Int_(3), Float(7000)},
     l \in {Rising(2), Rising(SamplesMax + 1)},
     x \in {Int_(35), Int_(150), Float(45000)}}

Candidates ==
  SentimentCandidates \cup PainCandidates \cup HeaderCandidates
    \cup ArrayCandidates \cup ProblemCandidates \cup MistypedCandidates
    \cup DashboardCandidates \cup AnnotatedCandidates

\* a candidate for the texts whose shape is what varies
PlainCandidate ==
  Obj([pain_index |-> Float(14370),
       header |-> Obj([status |-> Str("outage")])])

Pads == UNION {[1..n -> {"S", "N"}] : n \in 0..MaxPad}
OpeningFences ==
  {<<>>, <<"F">>, <<"F", "J">>, <<"F", "N">>, <<"F", "J", "N">>,
   <<"F", "X", "N">>}
Bodies == {<<>>, <<"B">>, <<"X">>, <<"X", "B">>, <<"B", "X">>, <<"B", "N", "B">>}
ClosingFences == {<<>>, <<"F">>, <<"N", "F">>, <<"N", "N", "F">>}

Texts ==
  {l \o o \o b \o c \o r :
     l \in Pads, o \in OpeningFences, b \in Bodies, c \in ClosingFences,
     r \in Pads}

----------------------------------------------------------------------------
(* The extraction layer (src/webscrapper.py).                              *)
(*                                                                         *)
(* A parsed document (soup) is a record with one field per page region the *)
(* parsers select.  A region is <<TRUE, content>> when the selector finds  *)
(* it and NoRegion when it finds nothing.  An element or attribute inside  *)
(* a region that may be missing is a string, NoText when it is missing.    *)
(* A text that is searched for a percentage is a sequence of tokens        *)
(* <<kind, n>>: "w" a word (the n-th label), "pp" the text (n%), "p" the   *)
(* text n%, "d" the digits n without a percent sign.                       *)

NoRegion == <<FALSE, 0>>
Region(c) == <<TRUE, c>>
NoText == "~"

\* text(el): the stripped text of the element, "" when there is none
TextOf(el) == IF el = NoText THEN "" ELSE el

\* attr(el, name): the attribute, None when element or attribute is missing
AttrOf(a) == IF a = NoText THEN Null ELSE Str(a)

\* `s or None` for a string s
OrNone(s) == IF s = "" THEN Null ELSE Str(s)

\* datetime.fromisoformat(raw.replace("Z", "+00:00")).isoformat(), for the
\* strings that are ISO timestamps
FromIsoFormat(raw) ==
  CASE raw = "2025-11-05T21:52:00Z" -> Str("2025-11-05T21:52:00+00:00")
    [] raw = "2025-11-05T21:52:00" -> Str("2025-11-05T21:52:00")
    [] raw = "2025-11-05" -> Str("2025-11-05T00:00:00")
    [] OTHER -> Raise("ValueError")

\* datetime.strptime(raw, "%A, %B %d, %Y %I:%M %p").isoformat()
StrPTime(raw) ==
  CASE raw = "Wednesday, November 5, 2025 9:52 PM" ->
         Str("2025-11-05T21:52:00")
    [] OTHER -> Raise("ValueError")

\* parse_datetime(raw) for raw = None (Null) or a string
parse_datetime(raw) ==
  IF raw = Null \/ raw = Str("") THEN Null
  ELSE IF ~IsRaise(FromIsoFormat(raw[2])) THEN FromIsoFormat(raw[2])
  ELSE IF ~IsRaise(StrPTime(raw[2])) THEN StrPTime(raw[2])
  ELSE raw

\* a plausible slip: the container is used without the check for None
parse_star_rating_unguarded(soup) ==
  IF soup.star = NoRegion THEN Raise("AttributeError")
  ELSE Obj([current |-> OrNone(TextOf(soup.star[2].current)),
            count |-> OrNone(TextOf(soup.star[2].count))])

parse_star_rating(soup) ==
  IF soup.star = NoRegion THEN Obj(<<>>)
  ELSE Obj([current |-> OrNone(TextOf(soup.star[2].current)),
            count |-> OrNone(TextOf(soup.star[2].count))])

\* re.search(r"var\s+chartTs\s*=\s*(\d+)", script.string) in the first script
\* that mentions chartTs: the digits, "" when the pattern does not match
ChartTsOf(script) == IF script = "var chartTs;" THEN "" ELSE script

\* re.search(r"(\d{2}/\d{2}/\d{4}\s+\d{2}:\d{2})", alt): the time in the
\* image's descriptive text, "" when there is none
AltTimeOf(alt) ==
  CASE alt = Str("Outage chart 11/05/2025 21:52") -> "11/05/2025 21:52"
    [] OTHER -> ""

ChartTs(soup) ==
  IF soup.script = NoRegion \/ ChartTsOf(soup.script[2]) = "" THEN <<>>
  ELSE [chart_ts |-> Str(ChartTsOf(soup.script[2]))]

ChartImage(soup) ==
  IF soup.img = NoRegion THEN <<>>
  ELSE IF AltTimeOf(AttrOf(soup.img[2].alt)) = ""
       THEN [image_src |-> AttrOf(soup.img[2].src)]
       ELSE [image_src |-> AttrOf(soup.img[2].src),
             alt_time |-> Str(AltTimeOf(AttrOf(soup.img[2].alt)))]

\* the union of two dicts with different keys
Merge(f, g) ==
  [k \in DOMAIN f \cup DOMAIN g |-> IF k \in DOMAIN f THEN f[k] ELSE g[k]]

parse_chart(soup) == Obj(Merge(ChartTs(soup), ChartImage(soup)))

\* re.search(r"(\d+)%", text): the first run of digits before a percent sign
RECURSIVE SearchPercent(_)
SearchPercent(tokens) ==
  IF tokens = <<>> THEN Null
  ELSE IF Head(tokens)[1] \in {"pp", "p"} THEN Int_(Head(tokens)[2])
  ELSE SearchPercent(Tail(tokens))

\* re.sub(r"\(\d+%\)", "", text).strip()
RECURSIVE StripPercent(_)
StripPercent(tokens) ==
  IF tokens = <<>> THEN <<>>
  ELSE IF Head(tokens)[1] = "pp" THEN StripPercent(Tail(tokens))
  ELSE <<Head(tokens)>> \o StripPercent(Tail(tokens))

Text(tokens) == <<"text", tokens>>

\* one li of ol.doughtnut-list: p is the text of its paragraph without the
\* span, span the text of the span inside the paragraph, alt the
\* descriptive text of its image (<<>> when the part is missing or empty)
PercentText(li) == IF li.span # <<>> THEN li.span ELSE li.alt

ProblemOf(li) ==
  Obj([label |-> Text(StripPercent(li.p \o li.span)),
       percent |-> SearchPercent(PercentText(li))])

parse_most_reported(soup) ==
  IF soup.problems = NoRegion THEN Arr(<<>>)
  ELSE Arr([i \in 1..Len(soup.problems[2]) |-> ProblemOf(soup.problems[2][i])])

\* one row of #latestreports with three td cells
ReportOf(cells) ==
  Obj([city |-> Str(TextOf(cells[1].text)),
       reason |-> Str(TextOf(cells[2].text)),
       time_human |-> Str(TextOf(cells[3].text)),
       time_iso |-> parse_datetime(AttrOf(cells[3].datetime))])

\* a plausible slip: rows with at least three cells are taken
RECURSIVE ReportsOfAtLeast(_)
ReportsOfAtLeast(rows) ==
  IF rows = <<>> THEN <<>>
  ELSE IF Len(Head(rows)) < 3 THEN ReportsOfAtLeast(Tail(rows))
  ELSE <<ReportOf(Head(rows))>> \o ReportsOfAtLeast(Tail(rows))

\* the loop over the rows: a row is a sequence of td cells
RECURSIVE ReportsOf(_)
ReportsOf(rows) ==
  IF rows = <<>> THEN <<>>
  ELSE IF Len(Head(rows)) # 3 THEN ReportsOf(Tail(rows))
  ELSE <<ReportOf(Head(rows))>> \o ReportsOf(Tail(rows))

\* a plausible slip: the first row is taken for the header and left out
parse_latest_reports_after_header(soup) ==
  IF soup.latest = NoRegion \/ soup.latest[2] = <<>> THEN Arr(<<>>)
  ELSE Arr(ReportsOf(Tail(soup.latest[2])))

parse_latest_reports(soup) ==
  IF soup.latest = NoRegion THEN Arr(<<>>)
  ELSE Arr(ReportsOf(soup.latest[2]))

\* one li of ul.reports
IssueOf(li) ==
  LET entry == [user |-> IF li.users = <<>> THEN Null ELSE Str(li.users[1]),
                text |-> IF li.p = NoText THEN Null ELSE Str(li.p),
                time_iso |-> parse_datetime(AttrOf(li.datetime))]
  IN  Obj(IF TextOf(li.city) = "" THEN entry
          ELSE Merge(entry, [location |-> Str(li.city)]))

parse_issue_feed(soup) ==
  IF soup.issues = NoRegion THEN Arr(<<>>)
  ELSE Arr([i \in 1..Len(soup.issues[2]) |-> IssueOf(soup.issues[2][i])])

\* one anchor of #twitter-timeline-section
PostOf(a) ==
  LET tweet == [url |-> AttrOf(a.href),
                name |-> OrNone(TextOf(a.name)),
                reply_context |-> OrNone(TextOf(a.reply)),
                text |-> OrNone(TextOf(a.text))]
  IN  Obj(IF a.datetime # NoText
            THEN Merge(tweet, [timestamp |-> Str(a.datetime)])
          ELSE IF a.time # NoText
            THEN Merge(tweet, [timestamp |-> Str(a.time)])
          ELSE tweet)

parse_company_posts(soup) ==
  IF soup.posts = NoRegion THEN Arr(<<>>)
  ELSE Arr([i \in 1..Len(soup.posts[2]) |-> PostOf(soup.posts[2][i])])

\* int(reports_text.replace(",", "")), else the text or None
ReportsCount(reports_text) ==
  CASE reports_text = "1,234" -> Int_(1234)
    [] reports_text = "87" -> Int_(87)
    [] OTHER -> OrNone(reports_text)

\* one row of #status-table with two td cells
StatusOf(cells) ==
  Obj([location |->
         OrNone(IF cells[1].link # NoText THEN cells[1].link
                ELSE TextOf(cells[1].text)),
       reports |-> ReportsCount(TextOf(cells[2].text))])

RECURSIVE StatusRowsOf(_)
StatusRowsOf(rows) ==
  IF rows = <<>> THEN <<>>
  ELSE IF Len(Head(rows)) # 2 THEN StatusRowsOf(Tail(rows))
  ELSE <<StatusOf(Head(rows))>> \o StatusRowsOf(Tail(rows))

last_15_days_status(soup) ==
  IF soup.status = NoRegion THEN Arr(<<>>)
  ELSE Arr(StatusRowsOf(soup.status[2]))

\* the dict parse_outage_page builds, or the exception of the first parser
\* that raised
parse_outage_page(soup) ==
  IF IsRaise(parse_star_rating(soup)) THEN parse_star_rating(soup)
  ELSE Obj([star_rating |-> parse_star_rating(soup),
            chart |-> parse_chart(soup),
            most_reported_problems |-> parse_most_reported(soup),
            latest_reports |-> parse_latest_reports(soup),
            issues_reports |-> parse_issue_feed(soup),
            company_posts |-> parse_company_posts(soup)])

\* lines 341-342 of scrape_outage_page
ScrapedData(soup, map_soup) ==
  IF IsRaise(parse_outage_page(soup)) THEN parse_outage_page(soup)
  ELSE SetItem(parse_outage_page(soup), "last_15_days_status",
               last_15_days_status(map_soup))

----------------------------------------------------------------------------
(* Documents the extraction is checked on *)

MaxRows == 6       \* rows of a latest-reports table
MaxItems == 2      \* entries of a problem list

Cities == <<"Dallas", "Austin", "Plano", "Frisco", "Irving", "Waco", "Tyler">>
DateTimes ==
  <<"2025-11-05T21:52:00Z", NoText, "Wednesday, November 5, 2025 9:52 PM",
    "5 minutes ago", "", "2025-11-05", "2025-11-05T21:52:00">>

\* the i-th row of a table, with n td cells (a header row of th cells has
\* none); the third cell holds the time element
Row(i, n) ==
  [c \in 1..n |->
     [text |-> CASE c = 1 -> Cities[i]
                 [] c = 2 -> "Internet"
                 [] OTHER -> "5 minutes ago",
      datetime |-> IF c = 3 THEN DateTimes[i] ELSE NoText]]

CellCounts == {0, 2, 3, 4}
Tables ==
  UNION {{[i \in 1..n |-> Row(i, counts[i])] : counts \in [1..n -> CellCounts]}
           : n \in 0..MaxRows}

\* the i-th entry of a problem list: percentage n shown as `(n%)` in the
\* span of the paragraph, as `n%` in the image's text, in both, as digits
\* without a percent sign, or not at all
Item(i, shape, n) ==
  [p |-> <<<<"w", i>>>>,
   span |-> CASE shape \in {"span", "both"} -> <<<<"pp", n>>>>
              [] shape = "digits" -> <<<<"d", n>>>>
              [] OTHER -> <<>>,
   alt |-> CASE shape = "alt" -> <<<<"w", i>>, <<"p", n>>>>
             [] shape = "both" -> <<<<"p", n + 1>>>>
             [] OTHER -> <<>>]

ItemShapes == {"span", "alt", "both", "digits", "none"}
Percents == {0, 45, 100, 150}
ProblemRegions ==
  UNION {{[i \in 1..n |-> Item(i, sh[i], pct[i])] :
            sh \in [1..n -> ItemShapes], pct \in [1..n -> Percents]}
           : n \in 0..MaxItems}

SampleStar == [current |-> "3.2", count |-> "1,234 ratings"]
SampleScript == "1762379520"
SampleImage ==
  [src |-> "https://itsdcdn.com/chart.svg",
   alt |-> "Outage chart 11/05/2025 21:52"]
SampleProblems == <<Item(1, "span", 45), Item(2, "alt", 30)>>
SampleLatest == <<Row(1, 0), Row(2, 3), Row(3, 2), Row(4, 3)>>
SampleIssues ==
  <<[users |-> <<"Ann", "2 hours ago">>, p |-> "No signal since noon",
     datetime |-> "2025-11-05T21:52:00Z", city |-> "Dallas"],
    [users |-> <<>>, p |-> NoText, datetime |-> NoText, city |-> NoText]>>
SamplePosts ==
  <<[href |-> "https://x.com/att/1", name |-> "AT&T", reply |-> NoText,
     text |-> "We are looking into it", datetime |-> "2025-11-05T21:52:00Z",
     time |-> "Nov 5"],
    [href |-> NoText, name |-> NoText, reply |-> NoText, text |-> "",
     datetime |-> NoText, time |-> "Nov 5"]>>
SampleStatus ==
  <<<<>>,
    <<[text |-> "Dallas", link |-> "Dallas"], [text |-> "1,234", link |-> NoText]>>,
    <<[text |-> "Austin", link |-> NoText], [text |-> "many", link |-> NoText]>>,
    <<[text |-> "", link |-> NoText], [text |-> "", link |-> NoText]>>,
    <<[text |-> "Plano", link |-> NoText]>>>>

\* the page with every region, the page with none (what a block page or an
\* error page of the site parses to), and the two map pages
SampleDocument ==
  [star |-> Region(SampleStar), script |-> Region(SampleScript),
   img |-> Region(SampleImage), problems |-> Region(SampleProblems),
   latest |-> Region(SampleLatest), issues |-> Region(SampleIssues),
   posts |-> Region(SamplePosts)]
EmptyDocument ==
  [star |-> NoRegion, script |-> NoRegion, img |-> NoRegion,
   problems |-> NoRegion, latest |-> NoRegion, issues |-> NoRegion,
   posts |-> NoRegion]
SampleMap == [status |-> Region(SampleStatus)]
EmptyMap == [status |-> NoRegion]

\* the regions of the main page, one per field of the record; the chart's
\* region is the script and the image
Regions == {"star", "chart", "problems", "latest", "issues", "posts"}
PartsOf(region) == IF region = "chart" THEN {"script", "img"} ELSE {region}

\* the sample page without the regions in `missing`
Without(missing) ==
  [part \in DOMAIN SampleDocument |->
     IF \E r \in missing : part \in PartsOf(r) THEN NoRegion
     ELSE SampleDocument[part]]

RegionDocuments == {Without(missing) : missing \in SUBSET Regions}
LatestDocuments ==
  {[EmptyDocument EXCEPT !.latest = Region(t)] : t \in Tables}
ProblemDocuments ==
  {[EmptyDocument EXCEPT !.problems = Region(l)] : l \in ProblemRegions}
ChartDocuments ==
  {[EmptyDocument EXCEPT !.script = s, !.img = i, !.star = r] :
     s \in {NoRegion, Region("var chartTs;"), Region(SampleScript)},
     i \in {NoRegion, Region(SampleImage),
            Region([src |-> NoText, alt |-> NoText]),
            Region([src |-> "https://itsdcdn.com/chart.svg",
                    alt |-> "Outage chart"])},
     r \in {NoRegion, Region(SampleStar),
            Region([current |-> NoText, count |-> ""])}}

Documents ==
  RegionDocuments \cup LatestDocuments \cup ProblemDocuments
    \cup ChartDocuments
MapDocuments == {SampleMap, EmptyMap}

----------------------------------------------------------------------------
(* The remote calls of one provider's pipeline and its place among the     *)
(* provider tasks of main()                                                *)

PoolSize == 8

\* what the pipeline awaits: the four remote calls and the fixed delay
Remote == {"main", "map", "summarizer", "model"}
Calls == Remote \cup {"delay"}
\* A call is none (not made), pending, failed (it raised) or returned: ok
\* (a success status), nonsuccess (any other status) or, for a model call,
\* invalid (status 200 and a body without choices).
Returned == {"ok", "nonsuccess", "invalid"}
NoCalls == [c \in Calls |-> "none"]

Placeholder == "No chart data available for the last 24 hours."

\* positions of a provider task: created by main(), then the awaits of
\* analyze_insights in order, then the two outcomes process_service prints;
\* cancelled is a task that was ended from outside
Running == {"scrape", "delay", "summarize", "model", "RawText"}
Positions == {"created"} \cup Running \cup {"completed", "error", "cancelled"}
NoTasks == [p \in Positions |-> 0]

\* the pipeline of the provider that is followed step by step stands at
\* the point where the model's text has been received
AtRawText ==
  /\ calls = [c \in Calls |-> "ok"]
  /\ html = SampleDocument
  /\ map_html = SampleMap
  /\ data = ScrapedData(SampleDocument, SampleMap)
  /\ scraped = ScrapedData(SampleDocument, SampleMap)
  /\ analysis_text = "summary"
  /\ permit = TRUE
  /\ outcome = "none"
  /\ SEMAPHORE = PoolSize - 1
  /\ tasks = NoTasks
  /\ services = 0

pipelineVars ==
  <<calls, html, map_html, data, scraped, analysis_text, permit, outcome,
    SEMAPHORE, tasks, services>>

----------------------------------------------------------------------------
(* analyze_insights from the moment the model's text is received *)

Init ==
  /\ pc = "RawText"
  /\ \/ content = <<"B">> /\ candidate \in Candidates
     \/ content \in Texts /\ candidate = PlainCandidate
  /\ dashboard_content = content
  /\ dashboard_json = NoValue
  /\ error = "none"
  /\ report = NoFile
  /\ AtRawText

\* a plausible slip: the except clause returns without writing the text
ParseFailureUnsaved ==
  /\ pc = "RawText"
  /\ ~JsonLoads(StripFences(content))
  /\ pc' = "ParseFailure"
  /\ dashboard_content' = StripFences(content)
  /\ UNCHANGED <<content, candidate, dashboard_json, error, report>>
  /\ UNCHANGED pipelineVars

\* json.loads fails: the except clause keeps the stripped text, which is
\* written to the report file; the function returns
ParseFailure ==
  /\ pc = "RawText"
  /\ ~JsonLoads(StripFences(content))
  /\ pc' = "ParseFailure"
  /\ dashboard_content' = StripFences(content)
  /\ report' = [written |-> TRUE, text |-> StripFences(content),
                body |-> candidate]
  /\ UNCHANGED <<content, candidate, dashboard_json, error>>
  /\ UNCHANGED pipelineVars

\* the text parses and every repair completes: the repaired value is
\* serialized and written to the report file; the function returns
Validate ==
  /\ pc = "RawText"
  /\ JsonLoads(StripFences(content))
  /\ ~IsRaise(FieldRepair(candidate))
  /\ pc' = "ValidatedPayload"
  /\ dashboard_json' = FieldRepair(candidate)
  /\ dashboard_content' = <<"B">>
  /\ report' = [written |-> TRUE, text |-> <<"B">>,
                body |-> FieldRepair(candidate)]
  /\ UNCHANGED <<content, candidate, error>>
  /\ UNCHANGED pipelineVars

\* the text parses and a repair raises what no except clause catches: the
\* exception leaves analyze_insights before anything is written
RepairRaises ==
  /\ pc = "RawText"
  /\ JsonLoads(StripFences(content))
  /\ IsRaise(FieldRepair(candidate))
  /\ pc' = "Raised"
  /\ error' = FieldRepair(candidate)[2]
  /\ dashboard_content' = StripFences(content)
  /\ UNCHANGED <<content, candidate, dashboard_json, report>>
  /\ UNCHANGED pipelineVars

Next == ParseFailure \/ Validate \/ RepairRaises

Spec == Init /\ [][Next]_<<vars, pipelineVars>>

----------------------------------------------------------------------------
(* One provider's pipeline from the task main() creates to the line        *)
(* process_service prints: process_service (src/main.py), analyze_insights *)
(* up to the model's text (src/analyse_insights.py, lines 165-199),        *)
(* scrape_and_save and scrape_outage_page (src/webscrapper.py) and         *)
(* analyze_chart_image (src/imageanalysis_nemotron.py).  The steps after   *)
(* the text is received are ParseFailure, Validate and RepairRaises above. *)

\* what the pipeline is run on
Pages == {SampleDocument, Without({"chart"})}
MapPages == {SampleMap}
ModelTexts ==
  {<<"B">>, <<"F", "J", "N", "B", "N", "F">>, <<"S", "F", "B", "F">>, <<"X">>}
ModelCandidates ==
  {PlainCandidate,
   Obj([sentiment |-> Obj([negative |-> Int_(50), neutral |-> Int_(50),
                           positive |-> Int_(20)])]),
   Obj([header |-> Null])}

\* nothing after the page fetches has run
NothingExtracted ==
  /\ content = <<>>
  /\ candidate = NoValue
  /\ dashboard_content = <<>>
  /\ dashboard_json = NoValue
  /\ error = "none"
  /\ report = NoFile
  /\ data = NoValue
  /\ scraped = NoValue
  /\ analysis_text = ""
  /\ outcome = "none"

\* every provider task of the run is the one followed step by step
NoSiblings == tasks = NoTasks /\ services = 0

\* the task is created and nothing of the pipeline has run
PipelineInit ==
  /\ pc = "created"
  /\ calls = NoCalls
  /\ html = NoValue
  /\ map_html = NoValue
  /\ permit = FALSE
  /\ SEMAPHORE = PoolSize
  /\ NothingExtracted
  /\ NoSiblings

\* `async with SEMAPHORE:` takes a permit; analyze_insights runs up to its
\* first await, the gather of the two page fetches, each in its own thread
Acquire ==
  /\ pc = "created"
  /\ SEMAPHORE > 0
  /\ SEMAPHORE' = SEMAPHORE - 1
  /\ permit' = TRUE
  /\ pc' = "scrape"
  /\ calls' = [calls EXCEPT !.main = "pending", !.map = "pending"]
  /\ UNCHANGED <<content, candidate, dashboard_content, dashboard_json, error,
                 report, html, map_html, data, scraped, analysis_text,
                 outcome, tasks, services>>

\* scraper.get(url).text in the thread of the main page: the body of the
\* response whatever its status; a block or error page has no region
FetchMainReturns ==
  /\ calls.main = "pending"
  /\ \/ calls' = [calls EXCEPT !.main = "ok"] /\ html' \in Pages
     \/ calls' = [calls EXCEPT !.main = "nonsuccess"] /\ html' = EmptyDocument
  /\ UNCHANGED <<pc, content, candidate, dashboard_content, dashboard_json,
                 error, report, map_html, data, scraped, analysis_text,
                 permit, SEMAPHORE, outcome, tasks, services>>

\* the same in the thread of the map page
FetchMapReturns ==
  /\ calls.map = "pending"
  /\ \/ calls' = [calls EXCEPT !.map = "ok"] /\ map_html' \in MapPages
     \/ calls' = [calls EXCEPT !.map = "nonsuccess"] /\ map_html' = EmptyMap
  /\ UNCHANGED <<pc, content, candidate, dashboard_content, dashboard_json,
                 error, report, html, data, scraped, analysis_text,
                 permit, SEMAPHORE, outcome, tasks, services>>

\* scraper.get raises in a thread (no connection, timeout)
FetchRaises ==
  /\ \E c \in {"main", "map"} :
       /\ calls[c] = "pending"
       /\ calls' = [calls EXCEPT ![c] = "failed"]
  /\ UNCHANGED <<pc, content, candidate, dashboard_content, dashboard_json,
                 error, report, html, map_html, data, scraped, analysis_text,
                 permit, SEMAPHORE, outcome, tasks, services>>

\* asyncio.gather hands the first exception of a fetch to the awaiting
\* task at once; the other thread is not cancelled and runs on
GatherRaises ==
  /\ pc = "scrape"
  /\ \E c \in {"main", "map"} : calls[c] = "failed"
  /\ pc' = "Raised"
  /\ error' = "RequestException"
  /\ UNCHANGED <<content, candidate, dashboard_content, dashboard_json,
                 report, calls, html, map_html, data, scraped, analysis_text,
                 permit, SEMAPHORE, outcome, tasks, services>>

\* data["chart"]["image_src"] does not raise KeyError
HasImage(d) == "image_src" \in DOMAIN d[2].chart[2]

\* both fetches have returned: the gather hands over the two pages
GatherReturns ==
  pc = "scrape" /\ calls.main \in Returned /\ calls.map \in Returned

\* a plausible slip: the image is posted without the delay
ExtractWithoutDelay(d) ==
  IF IsRaise(d)
  THEN /\ pc' = "Raised"
       /\ error' = d[2]
       /\ UNCHANGED <<data, scraped, analysis_text, calls>>
  ELSE /\ data' = d
       /\ scraped' = d
       /\ error' = error
       /\ IF HasImage(d)
          THEN /\ pc' = "summarize"
               /\ calls' = [calls EXCEPT !.summarizer = "pending"]
               /\ UNCHANGED analysis_text
          ELSE /\ pc' = "model"
               /\ analysis_text' = Placeholder
               /\ calls' = [calls EXCEPT !.model = "pending"]

\* what follows the gather without an await: the record is extracted and
\* saved (scrape_and_save), and the chart image is looked up; with an image
\* analyze_chart_image starts its fixed delay, without one the placeholder
\* stands for the summary and the text model is called
Extract(d) ==
  IF IsRaise(d)
  THEN /\ pc' = "Raised"
       /\ error' = d[2]
       /\ UNCHANGED <<data, scraped, analysis_text, calls>>
  ELSE /\ data' = d
       /\ scraped' = d
       /\ error' = error
       /\ IF HasImage(d)
          THEN /\ pc' = "delay"
               /\ calls' = [calls EXCEPT !.delay = "pending"]
               /\ UNCHANGED analysis_text
          ELSE /\ pc' = "model"
               /\ analysis_text' = Placeholder
               /\ calls' = [calls EXCEPT !.model = "pending"]

ScrapeReturns ==
  /\ GatherReturns
  /\ Extract(ScrapedData(html, map_html))
  /\ UNCHANGED <<content, candidate, dashboard_content, dashboard_json,
                 report, html, map_html, permit, SEMAPHORE, outcome, tasks,
                 services>>

\* asyncio.sleep(2) is over: the image is posted to the chart summarizer
DelayElapses ==
  /\ pc = "delay"
  /\ pc' = "summarize"
  /\ calls' = [calls EXCEPT !.delay = "ok", !.summarizer = "pending"]
  /\ UNCHANGED <<content, candidate, dashboard_content, dashboard_json, error,
                 report, html, map_html, data, scraped, analysis_text,
                 permit, SEMAPHORE, outcome, tasks, services>>

\* the summarizer answers with a JSON body: with the summary, or (an error
\* status, or no choices) with a body in which the lookup of the summary
\* raises KeyError, which the except clause turns into the placeholder;
\* either way the text model is called next
SummarizerReturns ==
  /\ pc = "summarize"
  /\ \E how \in Returned :
       /\ calls' = [calls EXCEPT !.summarizer = how, !.model = "pending"]
       /\ analysis_text' = IF how = "ok" THEN "summary" ELSE Placeholder
  /\ pc' = "model"
  /\ UNCHANGED <<content, candidate, dashboard_content, dashboard_json, error,
                 report, html, map_html, data, scraped, permit, SEMAPHORE,
                 outcome, tasks, services>>

\* the post raises (no connection), or response.json() raises on an error
\* status whose body is not JSON: no except clause of analyze_insights
\* catches either
SummarizerRaises ==
  /\ pc = "summarize"
  /\ \E how \in {"failed", "nonsuccess"} :
       calls' = [calls EXCEPT !.summarizer = how]
  /\ pc' = "Raised"
  /\ error' = "ClientError"
  /\ UNCHANGED <<content, candidate, dashboard_content, dashboard_json,
                 report, html, map_html, data, scraped, analysis_text,
                 permit, SEMAPHORE, outcome, tasks, services>>

\* the text model answers with status 200 and choices: the text is taken
ModelReturns ==
  /\ pc = "model"
  /\ calls' = [calls EXCEPT !.model = "ok"]
  /\ content' \in ModelTexts
  /\ candidate' \in ModelCandidates
  /\ dashboard_content' = content'
  /\ pc' = "RawText"
  /\ UNCHANGED <<dashboard_json, error, report, html, map_html, data, scraped,
                 analysis_text, permit, SEMAPHORE, outcome, tasks, services>>

\* the post raises, or the status is not 200 or the body has no choices and
\* analyze_insights raises Exception itself
ModelRaises ==
  /\ pc = "model"
  /\ \E how \in {"failed", "nonsuccess", "invalid"} :
       /\ calls' = [calls EXCEPT !.model = how]
       /\ error' = IF how = "failed" THEN "ClientError" ELSE "Exception"
  /\ pc' = "Raised"
  /\ UNCHANGED <<content, candidate, dashboard_content, dashboard_json,
                 report, html, map_html, data, scraped, analysis_text,
                 permit, SEMAPHORE, outcome, tasks, services>>

\* analyze_insights returned: process_service prints the completion and
\* leaves the `async with`, which releases the permit
Completed ==
  /\ pc \in {"ValidatedPayload", "ParseFailure"}
  /\ outcome = "none"
  /\ outcome' = "completed"
  /\ permit' = FALSE
  /\ SEMAPHORE' = SEMAPHORE + 1
  /\ UNCHANGED <<vars, calls, html, map_html, data, scraped, analysis_text,
                 tasks, services>>

\* analyze_insights raised: `except Exception` prints the error with the
\* provider's name and the `async with` releases the permit
ErrorReported ==
  /\ pc = "Raised"
  /\ outcome = "none"
  /\ outcome' = "error"
  /\ permit' = FALSE
  /\ SEMAPHORE' = SEMAPHORE + 1
  /\ UNCHANGED <<vars, calls, html, map_html, data, scraped, analysis_text,
                 tasks, services>>

PipelineNext ==
  \/ Acquire \/ FetchMainReturns \/ FetchMapReturns \/ FetchRaises
  \/ GatherRaises \/ ScrapeReturns \/ DelayElapses \/ SummarizerReturns
  \/ SummarizerRaises \/ ModelReturns \/ ModelRaises
  \/ ParseFailure \/ Validate \/ RepairRaises
  \/ Completed \/ ErrorReported

PipelineSpec == PipelineInit /\ [][PipelineNext]_<<vars, pipelineVars>>

\* the extraction alone: the gather of scrape_outage_page is about to hand
\* over two fetched pages, whatever they hold
ExtractInit ==
  /\ pc = "scrape"
  /\ calls = [NoCalls EXCEPT !.main = "ok", !.map = "ok"]
  /\ \/ html \in Documents /\ map_html = SampleMap
     \/ html \in RegionDocuments /\ map_html \in MapDocuments
  /\ permit = TRUE
  /\ SEMAPHORE = PoolSize - 1
  /\ NothingExtracted
  /\ NoSiblings

ExtractNext == ScrapeReturns

ExtractSpec == ExtractInit /\ [][ExtractNext]_<<vars, pipelineVars>>

----------------------------------------------------------------------------
(* main(): one task per provider of the list, all run by asyncio.gather    *)
(* behind the gate (src/main.py).  The tasks run the same code and differ  *)
(* only in the provider's name, so the state is the number of tasks at     *)
(* each position; no provider is followed step by step.                    *)

MaxServices == 9   \* providers in the list

\* from one await of analyze_insights to the next
Flow ==
  {<<"scrape", "delay">>, <<"scrape", "model">>, <<"delay", "summarize">>,
   <<"summarize", "model">>, <<"model", "RawText">>}
\* the positions at which analyze_insights can raise: a fetch, a model call
\* or a field repair; the delay cannot
Raising == Running \ {"delay"}

Move(from, to) == [tasks EXCEPT ![from] = @ - 1, ![to] = @ + 1]

\* no provider is followed step by step
NoneFollowed ==
  /\ pc = "none"
  /\ calls = NoCalls
  /\ html = NoValue
  /\ map_html = NoValue
  /\ permit = FALSE
  /\ NothingExtracted

followed ==
  <<vars, calls, html, map_html, data, scraped, analysis_text, permit,
    outcome>>

MainInit ==
  /\ services \in 1..MaxServices
  /\ tasks = [NoTasks EXCEPT !.created = services]
  /\ SEMAPHORE = PoolSize
  /\ NoneFollowed

\* a plausible slip: the pipeline is started without waiting for a permit
TaskAcquiresUngated ==
  /\ tasks.created > 0
  /\ SEMAPHORE' = SEMAPHORE - 1
  /\ tasks' = Move("created", "scrape")
  /\ UNCHANGED <<services, followed>>

\* `async with SEMAPHORE:` of a task: with a permit left the task takes it
\* and starts analyze_insights; with none it waits
TaskAcquires ==
  /\ tasks.created > 0
  /\ SEMAPHORE > 0
  /\ SEMAPHORE' = SEMAPHORE - 1
  /\ tasks' = Move("created", "scrape")
  /\ UNCHANGED <<services, followed>>

\* what a task awaits is there: it runs to its next await
TaskAdvances ==
  /\ \E e \in Flow : tasks[e[1]] > 0 /\ tasks' = Move(e[1], e[2])
  /\ UNCHANGED <<SEMAPHORE, services, followed>>

\* a plausible slip: the exception is not caught in process_service; it
\* leaves the task (the permit is released on the way), the gather of
\* main() raises, and asyncio.run cancels the tasks that have not ended
TaskFailsUncaught ==
  /\ \E p \in Raising : tasks[p] > 0
  /\ tasks' = [p \in Positions |->
                 CASE p \in {"completed", "error"} -> tasks[p]
                   [] p = "cancelled" ->
                        services - tasks.completed - tasks.error
                   [] OTHER -> 0]
  /\ SEMAPHORE' = PoolSize
  /\ UNCHANGED <<services, followed>>

\* analyze_insights raises in a task: `except Exception` prints the error
\* with the provider's name and the `async with` releases the permit
TaskFails ==
  /\ \E p \in Raising : tasks[p] > 0 /\ tasks' = Move(p, "error")
  /\ SEMAPHORE' = SEMAPHORE + 1
  /\ UNCHANGED <<services, followed>>

\* analyze_insights returns in a task (report written): the completion is
\* printed and the permit released
TaskCompletes ==
  /\ tasks.RawText > 0
  /\ tasks' = Move("RawText", "completed")
  /\ SEMAPHORE' = SEMAPHORE + 1
  /\ UNCHANGED <<services, followed>>

MainNext == TaskAcquires \/ TaskAdvances \/ TaskFails \/ TaskCompletes

\* the event loop runs every task that can run, and every awaited step
\* comes to an end
MainSpec ==
  /\ MainInit
  /\ [][MainNext]_<<vars, pipelineVars>>
  /\ WF_<<vars, pipelineVars>>(MainNext)

----------------------------------------------------------------------------
(* Properties of the validator *)

IsObj(x) == x[1] = "obj"
HasKey(x, k) == IsObj(x) /\ k \in DOMAIN x[2]
Validated == pc = "ValidatedPayload"
\* the text was parsed and analyze_insights has ended
Parsed == pc \in {"ValidatedPayload", "Raised"}
TripleKeys == {"negative", "neutral", "positive"}
IsIntIn(x, lo, hi) == x[1] = "int" /\ lo <= x[2] /\ x[2] <= hi
IsFloatIn(x, lo, hi) == x[1] = "float" /\ lo <= x[2] /\ x[2] <= hi

\* the candidate has a sentiment object with all three values, none null
HasTriple ==
  /\ HasKey(candidate, "sentiment")
  /\ \A k \in TripleKeys :
       /\ HasKey(candidate[2].sentiment, k)
       /\ candidate[2].sentiment[2][k] # Null

\* the sum of the individually clamped triple of the candidate
ClampedSum ==
  LET in == candidate[2].sentiment[2]
  IN  ClampPercent(in.negative)[2] + ClampPercent(in.neutral)[2]
        + ClampPercent(in.positive)[2]

\* n is an integer nearest to num/den
IsNearest(n, num, den) ==
  2 * (IF n * den >= num THEN n * den - num ELSE num - n * den) <= den

\* C1: a triple whose clamped sum s is positive and not 100 comes out with
\* negative and neutral each the nearest integer to value*100/s and positive
\* = 100 - negative - neutral, so that the three sum to exactly 100; the
\* triple 50/50/20 comes out as 42/42/16.
C1_RenormalizedTriple ==
  (Validated /\ HasTriple /\ ClampedSum > 0 /\ ClampedSum # 100) =>
    LET in == candidate[2].sentiment[2]
        out == dashboard_json[2].sentiment[2]
    IN  /\ \A k \in TripleKeys : out[k][1] = "int"
        /\ IsNearest(out.negative[2], 100 * ClampPercent(in.negative)[2],
                     ClampedSum)
        /\ IsNearest(out.neutral[2], 100 * ClampPercent(in.neutral)[2],
                     ClampedSum)
        /\ out.positive[2] = 100 - out.negative[2] - out.neutral[2]
        /\ out.negative[2] + out.neutral[2] + out.positive[2] = 100
        /\ (in.negative = Int_(50) /\ in.neutral = Int_(50)
              /\ in.positive = Int_(20)) =>
             (out.negative = Int_(42) /\ out.neutral = Int_(42)
                /\ out.positive = Int_(16))

C1_Witness ==
  /\ Validated
  /\ HasTriple
  /\ candidate[2].sentiment[2].negative = Int_(50)
  /\ candidate[2].sentiment[2].neutral = Int_(50)
  /\ candidate[2].sentiment[2].positive = Int_(20)
  /\ dashboard_json[2].sentiment[2].negative = Int_(42)
  /\ dashboard_json[2].sentiment[2].neutral = Int_(42)
  /\ dashboard_json[2].sentiment[2].positive = Int_(16)

\* k is present and not null in the object o of the candidate
Given(o, k) == HasKey(o, k) /\ o[2][k] # Null

PainInRange ==
  Given(candidate, "pain_index") =>
    IsFloatIn(dashboard_json[2].pain_index, 0, 1000 * PainMax)

StarInRange ==
  (HasKey(candidate, "header") /\ Given(candidate[2].header, "star_rating")) =>
    IsFloatIn(dashboard_json[2].header[2].star_rating, 0, 1000 * StarMax)

TotalReportsInRange ==
  (HasKey(candidate, "header")
     /\ Given(candidate[2].header, "total_reports_24h")) =>
    LET n == dashboard_json[2].header[2].total_reports_24h
    IN  n[1] = "bigint" \/ (n[1] = "int" /\ n[2] >= 0)

SentimentInRange ==
  HasKey(candidate, "sentiment") =>
    \A k \in TripleKeys :
      Given(candidate[2].sentiment, k) =>
        IsIntIn(dashboard_json[2].sentiment[2][k], 0, PercentMax)

PercentsInRange ==
  (HasKey(candidate, "problem_distribution")
     /\ candidate[2].problem_distribution[1] = "arr") =>
    \A i \in 1..Len(candidate[2].problem_distribution[2]) :
      Given(candidate[2].problem_distribution[2][i], "percent") =>
        IsIntIn(dashboard_json[2].problem_distribution[2][i][2].percent,
                0, PercentMax)

\* C2: every numeric contract field that is present and not null in the
\* candidate lies in its documented range in the validated payload.
C2_NumericFieldsInRange ==
  Validated =>
    /\ PainInRange
    /\ StarInRange
    /\ TotalReportsInRange
    /\ SentimentInRange
    /\ PercentsInRange

\* C3: the field repairs applied to the validated payload change nothing.
C3_Idempotent ==
  Validated => FieldRepair(dashboard_json) = dashboard_json

\* every key of the object at this place of the payload was a key of the
\* object at the same place of the candidate
NoNewKeys(in, out) == IsObj(in) => (IsObj(out) /\ DOMAIN out[2] \subseteq DOMAIN in[2])

\* C4: validation synthesizes no key: the payload, its header, its sentiment
\* and its problem entries have no key the candidate did not have there.
C4_NoKeySynthesized ==
  Validated =>
    /\ NoNewKeys(candidate, dashboard_json)
    /\ HasKey(candidate, "header") =>
         NoNewKeys(candidate[2].header, dashboard_json[2].header)
    /\ HasKey(candidate, "sentiment") =>
         NoNewKeys(candidate[2].sentiment, dashboard_json[2].sentiment)
    /\ (HasKey(candidate, "problem_distribution")
          /\ candidate[2].problem_distribution[1] = "arr") =>
         \A i \in 1..Len(candidate[2].problem_distribution[2]) :
           NoNewKeys(candidate[2].problem_distribution[2][i],
                     dashboard_json[2].problem_distribution[2][i])

\* k is present in the object o of the candidate, and null
NullAt(o, k) == HasKey(o, k) /\ o[2][k] = Null

\* the problem entries of the candidate, when they are a list
CandidateProblems ==
  IF HasKey(candidate, "problem_distribution")
       /\ candidate[2].problem_distribution[1] = "arr"
  THEN candidate[2].problem_distribution[2] ELSE <<>>

\* a numeric contract field of the candidate is null
SomeNumericNull ==
  \/ NullAt(candidate, "pain_index")
  \/ /\ HasKey(candidate, "header")
     /\ \/ NullAt(candidate[2].header, "star_rating")
        \/ NullAt(candidate[2].header, "total_reports_24h")
  \/ /\ HasKey(candidate, "sentiment")
     /\ \E k \in TripleKeys : NullAt(candidate[2].sentiment, k)
  \/ \E i \in 1..Len(CandidateProblems) : NullAt(CandidateProblems[i], "percent")

\* every numeric contract field that is null in the candidate is null in
\* the payload
NullsKept ==
  /\ NullAt(candidate, "pain_index") => NullAt(dashboard_json, "pain_index")
  /\ HasKey(candidate, "header") =>
       \A k \in {"star_rating", "total_reports_24h"} :
         NullAt(candidate[2].header, k) => NullAt(dashboard_json[2].header, k)
  /\ HasKey(candidate, "sentiment") =>
       \A k \in TripleKeys :
         NullAt(candidate[2].sentiment, k) =>
           NullAt(dashboard_json[2].sentiment, k)
  /\ \A i \in 1..Len(CandidateProblems) :
       NullAt(CandidateProblems[i], "percent") =>
         NullAt(dashboard_json[2].problem_distribution[2][i], "percent")

\* C5: when a numeric contract field of a parsed candidate object is null,
\* validation completes and the field is still null in the payload.
C5_NullPreserved ==
  (Parsed /\ IsObj(candidate) /\ SomeNumericNull) => (Validated /\ NullsKept)

\* C6: a candidate text that parses to a JSON object is always validated and
\* persisted, whatever the types of its fields: no exception leaves the
\* validator.
C6_NoFailureOnTypeMismatch ==
  (pc # "RawText" /\ JsonLoads(StripFences(content)) /\ IsObj(candidate)) =>
    /\ Validated
    /\ report.written
    /\ report.body = dashboard_json

C8_SettledTripleUnchanged ==
  (Validated /\ HasTriple /\ ClampedSum \in {0, 100}) =>
    \A k \in TripleKeys :
      dashboard_json[2].sentiment[2][k]
        = ClampPercent(candidate[2].sentiment[2][k])

C8_Witness ==
  /\ Validated
  /\ HasTriple
  /\ candidate[2].sentiment[2].negative = Int_(0)
  /\ candidate[2].sentiment[2].neutral = Int_(150)
  /\ candidate[2].sentiment[2].positive = Int_(-1)
  /\ dashboard_json[2].sentiment[2].negative = Int_(0)
  /\ dashboard_json[2].sentiment[2].neutral = Int_(100)
  /\ dashboard_json[2].sentiment[2].positive = Int_(0)

\* the first n items of a sequence, in their order
FirstItems(seq, n) == [i \in 1..Min(Len(seq), n) |-> seq[i]]

\* the documented window of each bounded array field
DocumentedWindow(k) ==
  CASE k = "key_metrics" -> 5
    [] k = "active_outages" -> 10
    [] k = "geographic_hotspots" -> 5
    [] k = "recent_activity" -> 8
    [] k = "critical_insights" -> 4
    [] k = "recommendations" -> 3
    [] k = "samples" -> 4

\* the list at key k of o comes out as its first DocumentedWindow(k) items
WindowKept(o, out, k) ==
  (HasKey(o, k) /\ o[2][k][1] = "arr") =>
    /\ HasKey(out, k)
    /\ out[2][k] = Arr(FirstItems(o[2][k][2], DocumentedWindow(k)))

\* C9: a bounded array longer than its window N comes out as its first N
\* items in their order, and one of at most N items comes out unchanged.
C9_ArraysTruncated ==
  Validated =>
    /\ \A k \in ArrayKeys : WindowKept(candidate, dashboard_json, k)
    /\ HasKey(candidate, "sentiment") =>
         WindowKept(candidate[2].sentiment, dashboard_json[2].sentiment,
                    "samples")

C9_Witness ==
  /\ Validated
  /\ HasKey(candidate, "recent_activity")
  /\ candidate[2].recent_activity = Falling(10)
  /\ dashboard_json[2].recent_activity
       = Arr(<<Int_(10), Int_(9), Int_(8), Int_(7), Int_(6), Int_(5), Int_(4),
               Int_(3)>>)

\* the value at key k of the header comes out as itself when it is one of
\* the allowed strings and as the default otherwise; an absent key stays
\* absent
EnumKept(k, allowed, default) ==
  IF HasKey(candidate[2].header, k)
  THEN /\ HasKey(dashboard_json[2].header, k)
       /\ dashboard_json[2].header[2][k][1] = "str"
       /\ dashboard_json[2].header[2][k][2] \in allowed
       /\ dashboard_json[2].header[2][k] =
            (IF candidate[2].header[2][k][1] = "str"
                  /\ candidate[2].header[2][k][2] \in allowed
             THEN candidate[2].header[2][k] ELSE Str(default))
  ELSE ~HasKey(dashboard_json[2].header, k)

\* C10: header.status, if present, comes out as one of good, moderate, major
\* issues and header.status_color as one of green, yellow, red: an allowed
\* value is kept, any other is replaced by moderate or yellow.
C10_EnumsRepaired ==
  (Validated /\ HasKey(candidate, "header") /\ IsObj(candidate[2].header)) =>
    /\ EnumKept("status", {"good", "moderate", "major issues"}, "moderate")
    /\ EnumKept("status_color", {"green", "yellow", "red"}, "yellow")

C10_Witness ==
  /\ Validated
  /\ HasKey(candidate, "header")
  /\ HasKey(candidate[2].header, "status")
  /\ HasKey(candidate[2].header, "status_color")
  /\ candidate[2].header[2].status = Str("outage")
  /\ candidate[2].header[2].status_color = Null
  /\ dashboard_json[2].header[2].status = Str("moderate")
  /\ dashboard_json[2].header[2].status_color = Str("yellow")

----------------------------------------------------------------------------
(* Properties of the pre-step: fences and outer whitespace *)

\* the texts of the claim: one JSON document inside a code fence, with or
\* without the json tag, with whitespace around the whole
FencedDocuments ==
  {l \o o \o <<"B">> \o c \o r :
     l \in Pads,
     o \in {<<"F">>, <<"F", "J">>, <<"F", "N">>, <<"F", "J", "N">>},
     c \in {<<"F">>, <<"N", "F">>},
     r \in Pads}

\* C19: a text that is a JSON object inside a code fence (json tag or not)
\* with any whitespace before and after it is stripped to the object, parsed
\* and validated; it never ends as a parse failure.
C19_FencedDocumentIsValidated ==
  (content \in FencedDocuments /\ pc # "RawText") =>
    /\ pc = "ValidatedPayload"
    /\ dashboard_json = FieldRepair(candidate)

----------------------------------------------------------------------------
(* Properties of the extraction layer *)

\* scrape_outage_page has handed over its record
Extracted == data # NoValue
LatestRows == IF html.latest = NoRegion THEN <<>> ELSE html.latest[2]
LatestReports == data[2].latest_reports[2]
ThreeCellRows == {i \in 1..Len(LatestRows) : Len(LatestRows[i]) = 3}
\* the position in the table of the j-th row that has three cells
NthThreeCellRow(j) ==
  CHOOSE i \in ThreeCellRows :
    Cardinality({k \in ThreeCellRows : k <= i}) = j

\* the entry made of a row: its three texts and the normalised time
EntryOf(row) ==
  Obj([city |-> Str(row[1].text), reason |-> Str(row[2].text),
       time_human |-> Str(row[3].text),
       time_iso |-> parse_datetime(AttrOf(row[3].datetime))])

\* C15: the latest-reports sequence has exactly one entry for each table
\* row with exactly three cells, in the order of the rows; rows with any
\* other number of cells leave no entry and change no other entry.
C15_OneEntryPerThreeCellRow ==
  Extracted =>
    /\ Len(LatestReports) = Cardinality(ThreeCellRows)
    /\ \A j \in 1..Len(LatestReports) :
         LatestReports[j] = EntryOf(LatestRows[NthThreeCellRow(j)])

C15_Witness ==
  /\ Extracted
  /\ html.latest =
       Region(<<Row(1, 3), Row(2, 2), Row(3, 4), Row(4, 3), Row(5, 0)>>)
  /\ Len(LatestReports) = 2
  /\ LatestReports[1][2].city = Str("Dallas")
  /\ LatestReports[1][2].time_iso = Str("2025-11-05T21:52:00+00:00")
  /\ LatestReports[2][2].city = Str("Frisco")
  /\ LatestReports[2][2].time_iso = Str("5 minutes ago")

\* the table has five rows of three cells and one row of two cells
FiveValidRowsOneMalformed ==
  /\ Len(LatestRows) = 6
  /\ Cardinality(ThreeCellRows) = 5
  /\ \E i \in 1..6 : Len(LatestRows[i]) = 2

\* C16 as stated: a table with a row of only two cells among five valid rows
\* of three cells yields exactly four entries.
C16_FourEntries ==
  (Extracted /\ FiveValidRowsOneMalformed) => Len(LatestReports) = 4

\* C16, amended: such a table yields exactly five entries, those of the
\* five valid rows in their order; the malformed row alone is dropped.
C16_FiveEntries ==
  (Extracted /\ FiveValidRowsOneMalformed) =>
    /\ Len(LatestReports) = 5
    /\ \A j \in 1..5 :
         LatestReports[j] = EntryOf(LatestRows[NthThreeCellRow(j)])

C16_Witness ==
  /\ Extracted
  /\ html.latest =
       Region(<<Row(1, 3), Row(2, 3), Row(3, 2), Row(4, 3), Row(5, 3),
                Row(6, 3)>>)
  /\ Len(LatestReports) = 5
  /\ LatestReports[2][2].city = Str("Austin")
  /\ LatestReports[3][2].city = Str("Frisco")
  /\ LatestReports[5][2].city = Str("Waco")

MainRegionMissing(r) == \A part \in PartsOf(r) : html[part] = NoRegion
FieldOf(r) ==
  CASE r = "star" -> "star_rating"
    [] r = "chart" -> "chart"
    [] r = "problems" -> "most_reported_problems"
    [] r = "latest" -> "latest_reports"
    [] r = "issues" -> "issues_reports"
    [] r = "posts" -> "company_posts"
RecordFields == {FieldOf(r) : r \in Regions} \cup {"last_15_days_status"}
\* the record of the pages none of whose regions is missing
FullRecord == ScrapedData(SampleDocument, SampleMap)
IsEmpty(x) == x = Arr(<<>>) \/ x = Obj(<<>>)

\* C17: whatever regions are missing from the pages, assembling the record
\* does not fail, the record has all its fields, the field of a missing
\* region is the empty sequence or the empty object, and the field of a
\* region that is there is what it is when no region is missing.
C17_MissingRegionsLeaveEmptyFields ==
  (pc # "scrape" /\ html \in RegionDocuments) =>
    /\ pc # "Raised"
    /\ IsObj(data)
    /\ DOMAIN data[2] = RecordFields
    /\ \A r \in Regions :
         IF MainRegionMissing(r) THEN IsEmpty(data[2][FieldOf(r)])
         ELSE data[2][FieldOf(r)] = FullRecord[2][FieldOf(r)]
    /\ IF map_html.status = NoRegion
       THEN IsEmpty(data[2].last_15_days_status)
       ELSE data[2].last_15_days_status = FullRecord[2].last_15_days_status

C17_Witness ==
  /\ pc # "scrape"
  /\ html = Without({"star", "latest", "chart"})
  /\ map_html = EmptyMap
  /\ data[2].star_rating = Obj(<<>>)
  /\ data[2].chart = Obj(<<>>)
  /\ data[2].latest_reports = Arr(<<>>)
  /\ data[2].last_15_days_status = Arr(<<>>)
  /\ Len(data[2].most_reported_problems[2]) = 2
  /\ Len(data[2].issues_reports[2]) = 2
  /\ Len(data[2].company_posts[2]) = 2

ProblemItems == IF html.problems = NoRegion THEN <<>> ELSE html.problems[2]
Problems == data[2].most_reported_problems[2]

\* C18: each entry of the problem breakdown has a percent that is null or
\* an integer from 0 to 100, and the entries are in the order of the source.
C18_PercentNullOrInRange ==
  Extracted =>
    /\ Len(Problems) = Len(ProblemItems)
    /\ \A i \in 1..Len(Problems) :
         /\ Head(Problems[i][2].label[2]) = <<"w", i>>
         /\ \/ Problems[i][2].percent = Null
            \/ IsIntIn(Problems[i][2].percent, 0, 100)

----------------------------------------------------------------------------
(* Properties of one provider's pipeline *)

Pending(c) == calls[c] = "pending"
\* the call raised or came back with a non-success status
Unsuccessful(c) == calls[c] \in {"failed", "nonsuccess"}
Ended == outcome # "none"

\* C12: the gate is acquired before the provider's pipeline starts and is
\* released on every exit, completed or failed: once the task has ended all
\* permits are available again, and no step of the provider's pipeline runs
\* while the provider holds no permit.
C12_NoStepWithoutPermit ==
  /\ (pc # "created" /\ ~Ended) => permit
  /\ Ended => (~permit /\ SEMAPHORE = PoolSize)
  /\ \A c \in Calls : Pending(c) => permit

\* C14: when a remote call of the pipeline (a page fetch, the chart
\* summarizer call, the text-model call) fails or returns a non-success
\* status, the pipeline is aborted: no later step runs and no report is
\* persisted for the provider.
C14_UnsuccessfulCallAborts ==
  /\ (\E c \in Remote : Unsuccessful(c)) => report = NoFile
  /\ (Unsuccessful("main") \/ Unsuccessful("map")) =>
       (data = NoValue /\ calls.delay = "none" /\ calls.summarizer = "none"
          /\ calls.model = "none")
  /\ Unsuccessful("summarizer") => calls.model = "none"
  /\ Unsuccessful("model") => (content = <<>> /\ dashboard_json = NoValue)

\* C20: the two page fetches may return in either order; extraction starts
\* only after both have finished; the fixed delay precedes the chart
\* summarizer call; the text model is called only after extraction and the
\* chart summary (or its placeholder) are there; validation starts only
\* after the model's text is received; the report is persisted last; and no
\* two of the steps after the fetches overlap.
C20_StepsInOrder ==
  /\ (Pending("main") /\ Pending("map")) =>
       (ENABLED FetchMainReturns /\ ENABLED FetchMapReturns)
  /\ data # NoValue => (calls.main \in Returned /\ calls.map \in Returned)
  /\ calls.delay # "none" => data # NoValue
  /\ calls.summarizer # "none" => calls.delay = "ok"
  /\ calls.model # "none" =>
       /\ data # NoValue
       /\ calls.summarizer \in {"none"} \cup Returned
       /\ analysis_text =
            (IF calls.summarizer = "ok" THEN "summary" ELSE Placeholder)
  /\ (pc \in {"RawText", "ParseFailure", "ValidatedPayload"}
        \/ dashboard_json # NoValue) =>
       (calls.model = "ok" /\ content \in ModelTexts)
  /\ report.written =>
       /\ pc \in {"ParseFailure", "ValidatedPayload"}
       /\ scraped # NoValue
       /\ \A c \in Calls : ~Pending(c)
  /\ Cardinality({c \in {"delay", "summarizer", "model"} : Pending(c)}) <= 1
  /\ Pending("delay") => pc = "delay"
  /\ Pending("summarizer") => pc = "summarize"
  /\ Pending("model") => pc = "model"
  /\ (Pending("main") \/ Pending("map")) =>
       pc \in {"scrape", "Raised"}

C20_Witness ==
  /\ outcome = "completed"
  /\ pc = "ValidatedPayload"
  /\ calls = [c \in Calls |-> "ok"]
  /\ html = SampleDocument
  /\ analysis_text = "summary"
  /\ content = <<"F", "J", "N", "B", "N", "F">>
  /\ dashboard_json = FieldRepair(PlainCandidate)
  /\ report.written

----------------------------------------------------------------------------
(* Properties of the gate and of the provider tasks *)

\* the tasks that have acquired the gate and not yet released it
InFlight ==
  tasks.scrape + tasks.delay + tasks.summarize + tasks.model + tasks.RawText
Finished == tasks.completed + tasks.error

\* C11: at every moment of a run, over any number of providers, at most 8
\* provider pipelines are in flight (gate acquired and not yet released).
C11_AtMostPoolSizeInFlight ==
  /\ InFlight <= PoolSize
  /\ InFlight + SEMAPHORE = PoolSize

C11_Witness ==
  /\ services > PoolSize
  /\ InFlight = PoolSize
  /\ SEMAPHORE = 0
  /\ tasks.created > 0

\* C13: a failure in one provider's pipeline never aborts a sibling:
\* whichever pipelines fail, no task is ended from outside, every task is
\* started, and every provider eventually has a completed or a reported
\* error outcome.
C13_EveryProviderEnds ==
  /\ [](tasks.cancelled = 0)
  /\ <>[](Finished = services /\ tasks.created = 0)

C13_Witness ==
  /\ services > PoolSize
  /\ tasks.error >= 2
  /\ tasks.completed >= 2
  /\ Finished = services
  /\ SEMAPHORE = PoolSize

----------------------------------------------------------------------------
(* Properties of the frame of the validation *)

IsNumber(x) == x[1] \in {"int", "float"}
\* a number in thousandths
Thousandths(x) == IF x[1] = "int" THEN 1000 * x[2] ELSE x[2]
\* the same JSON value: equal, or two numbers of equal magnitude (5 and 5.0)
SameValue(a, b) ==
  \/ a = b
  \/ IsNumber(a) /\ IsNumber(b) /\ Thousandths(a) = Thousandths(b)

\* x is null or a number from 0 to hi with at most `decimals` decimals
\* (unit = 1000 / 10^decimals)
InRule(x, hi, unit) ==
  \/ x = Null
  \/ /\ IsNumber(x)
     /\ 0 <= Thousandths(x)
     /\ Thousandths(x) <= 1000 * hi
     /\ Thousandths(x) % unit = 0
\* x is null or a whole number that is not negative
CountInRule(x) ==
  x = Null \/ (IsNumber(x) /\ Thousandths(x) >= 0 /\ Thousandths(x) % 1000 = 0)
EnumInRule(x, allowed) == x[1] = "str" /\ x[2] \in allowed
ListInRule(x, n) == x[1] = "arr" /\ Len(x[2]) <= n

ContractKeys ==
  {"pain_index", "header", "sentiment", "problem_distribution"}
    \cup ArrayKeys
HeaderKeys == {"status", "status_color", "star_rating", "total_reports_24h"}
SentimentContractKeys == TripleKeys \cup {"samples"}

\* the keys of o outside `contract` have the same value in out
OutsideKept(o, out, contract) ==
  \A k \in (DOMAIN o[2]) \ contract :
    k \in DOMAIN out[2] /\ out[2][k] = o[2][k]

\* the value at key k of o, when it satisfies its rule, is the same in out
RuleKept(o, out, k, satisfied) ==
  (k \in DOMAIN o[2] /\ satisfied) =>
    (k \in DOMAIN out[2] /\ SameValue(out[2][k], o[2][k]))

\* the triple of sentiment object o satisfies its rules: each value that is
\* there is a whole number from 0 to 100 and they sum to 100 or to 0
TripleInRule(o) ==
  /\ \A k \in TripleKeys \cap DOMAIN o[2] :
       o[2][k] # Null /\ InRule(o[2][k], PercentMax, 1000)
  /\ LET part(k) == IF k \in DOMAIN o[2] THEN Thousandths(o[2][k]) ELSE 0
     IN  part("negative") + part("neutral") + part("positive")
           \in {0, 1000 * SentimentTotal}

HeaderFrame(o, out) ==
  /\ OutsideKept(o, out, HeaderKeys)
  /\ RuleKept(o, out, "star_rating", InRule(o[2]["star_rating"], StarMax, 10))
  /\ RuleKept(o, out, "total_reports_24h",
              CountInRule(o[2]["total_reports_24h"]))
  /\ RuleKept(o, out, "status", EnumInRule(o[2]["status"], StatusValues))
  /\ RuleKept(o, out, "status_color",
              EnumInRule(o[2]["status_color"], StatusColorValues))

SentimentFrame(o, out) ==
  /\ OutsideKept(o, out, SentimentContractKeys)
  /\ \A k \in TripleKeys : RuleKept(o, out, k, TripleInRule(o))
  /\ RuleKept(o, out, "samples", ListInRule(o[2]["samples"], SamplesMax))

ProblemsFrame(list, out) ==
  /\ Len(out[2]) = Len(list[2])
  /\ \A i \in 1..Len(list[2]) :
       IsObj(list[2][i]) =>
         /\ OutsideKept(list[2][i], out[2][i], {"percent"})
         /\ RuleKept(list[2][i], out[2][i], "percent",
                     InRule(list[2][i][2]["percent"], PercentMax, 1000))

\* C21: validation changes only fields that violate the contract table:
\* every key outside the table, at the top level, in the header, in the
\* sentiment object and in the entries of the problem distribution, and
\* every contract field whose value already satisfies its rule has the same
\* value in the validated payload as in the candidate.
C21_OnlyViolatingFieldsChange ==
  (Validated /\ IsObj(candidate)) =>
    /\ OutsideKept(candidate, dashboard_json, ContractKeys)
    /\ RuleKept(candidate, dashboard_json, "pain_index",
                InRule(candidate[2]["pain_index"], PainMax, 100))
    /\ \A k \in ArrayKeys :
         RuleKept(candidate, dashboard_json, k,
                  ListInRule(candidate[2][k], Window(k)))
    /\ (HasKey(candidate, "header") /\ IsObj(candidate[2].header)) =>
         HeaderFrame(candidate[2].header, dashboard_json[2].header)
    /\ (HasKey(candidate, "sentiment") /\ IsObj(candidate[2].sentiment)) =>
         SentimentFrame(candidate[2].sentiment, dashboard_json[2].sentiment)
    /\ (HasKey(candidate, "problem_distribution")
          /\ candidate[2].problem_distribution[1] = "arr") =>
         ProblemsFrame(candidate[2].problem_distribution,
                       dashboard_json[2].problem_distribution)


\* a dashboard with keys outside the table in every object is validated: its
\* status colour, star rating, percent and samples are repaired while its
\* pain index, status, triple and the keys outside the table are kept
C21_Witness ==
  /\ Validated
  /\ candidate \in AnnotatedCandidates
  /\ candidate[2].pain_index = Float(6500)
  /\ candidate[2].header[2].status_color = Str("blue")
  /\ candidate[2].header[2].star_rating = Float(7000)
  /\ Len(candidate[2].sentiment[2].samples[2]) > SamplesMax
  /\ candidate[2].problem_distribution[2][1][2].percent = Int_(150)
  /\ dashboard_json[2].pain_index = Float(6500)
  /\ dashboard_json[2].trend_analysis = Str("rising")
  /\ dashboard_json[2].header[2].provider = Str("att")
  /\ dashboard_json[2].header[2].status = Str("good")
  /\ dashboard_json[2].header[2].status_color = Str("yellow")
  /\ dashboard_json[2].header[2].star_rating = Float(5000)
  /\ dashboard_json[2].sentiment[2].summary = Str("mixed")
  /\ dashboard_json[2].sentiment[2].negative = Int_(60)
  /\ Len(dashboard_json[2].sentiment[2].samples[2]) = SamplesMax
  /\ dashboard_json[2].problem_distribution[2][1][2].color = Str("#f00")
  /\ dashboard_json[2].problem_distribution[2][1][2].percent = Int_(100)

====
